---- MODULE Spec2Model ----
(***************************************************************************)
(* Chunked translation pipeline of the bilingual translator:               *)
(*   server.ts            the batch handler  (app.post('/api/translate'))  *)
(*   unnamed/part_000     the streaming handler (NDJSON progress events)   *)
(*   api/translate.ts     the single-call handler                          *)
(*                                                                         *)
(* A text is a record [s, pad]: the characters of s followed by pad        *)
(* further body letters "x".  A character is a one-unit token; the CJK     *)
(* and punctuation characters the code's regular expressions name are      *)
(* written as upper-case tokens (ZUO ZHE = the two characters of the       *)
(* Chinese word for author, FCOLON = full-width colon, ZSTOP ZBANG ZQM =   *)
(* the Chinese full stop, exclamation and question mark, ZCOMMA = the      *)
(* Chinese comma, EMDASH = the em dash, NL = line feed).                   *)
(***************************************************************************)
EXTENDS Integers, Sequences, FiniteSets, TLC

(***************************************************************************)
(* Bounds of the model                                                     *)
(***************************************************************************)
MaxSplitParas == 3      \* paragraphs of a sequence given to splitIntoChunks alone
MaxBudget == 3          \* small budgets B = 1..MaxBudget, beside CHUNK_SIZE
MaxMergeParas == 2      \* paragraphs of a chunk given to mergeZhWithParagraphs alone
MaxRaw == 3             \* elements of a recovered array given to it
MaxParas == 3           \* paragraphs of a request

\* Most paragraphs of a document of 12000 characters
MaxTotalParas == 5

\* Most pairs of a translation handed to the title and author passes
MaxPairs == 5

\* Most runs saved to the history, and most entries removed, in one session
MaxSaves == 2

MaxRemoves == 1

VARIABLES
    apiKey,          \* process.env.DEEPSEEK_API_KEY
    reqMethod,       \* req.method of the request taken
    reqBody,         \* req.body of the request taken
    handler,         \* the handler that took the request: "none", "batch", "stream", "single"
    pc,              \* its position: "idle", "awaitFirst", "awaitRest", "awaitChunk", "done"
    paragraphs,      \* req.body.paragraphs once validated
    chunks,          \* splitIntoChunks(paragraphs, CHUNK_SIZE)
    firstJson,       \* the first chunk's recovered response
    allTranslations, \* the accumulator of merged pairs
    loopI,           \* the streaming handler's loop variable i (0-based chunk index)
    inflight,        \* chunks (1-based) whose remote call has been issued and not returned
    settled,         \* batch: the trailing calls that resolved, in the order they did
    calls,           \* log of the remote calls issued: [chunk, prompt]
    remote,          \* log of what the remote engine answered: [chunk, o], as it answered
    events,          \* streaming: the NDJSON records written so far
    ended,           \* streaming: res.end() was called
    responses,       \* the res.status(..).json(..) responses sent
    phase,           \* App.tsx: "idle", "waiting" (request sent), "shown", "error"
    isTranslating,   \* App.tsx state isTranslating
    uiError,         \* App.tsx state error ("" for null)
    shown,           \* App.tsx states title, author, content, analysis
    history,         \* App.tsx state history, newest first
    saveCalls,       \* number of calls of saveToHistory
    cloudPosts,      \* ids whose POST /api/history has not settled
    aborted,         \* the caller of the streaming request has closed the connection
    cloudGet,        \* the GET /api/history sent at mount: "pending" or "settled"
    removed,         \* the ids of the entries the user removed (a DELETE was sent for each)
    fnArg,           \* input of the pure function under check (pure specifications)
    fnOut,           \* its result
    fnDone           \* whether the function has been applied

runVars == <<apiKey, reqMethod, reqBody, handler, pc, paragraphs, chunks, firstJson, allTranslations, loopI,
             inflight, settled, calls, remote, events, ended, responses>>

pureVars == <<fnArg, fnOut, fnDone>>

clientVars ==
    <<phase, isTranslating, uiError, shown, history, saveCalls, cloudPosts, aborted,
      cloudGet, removed>>

vars == <<runVars, pureVars, clientVars>>

(***************************************************************************)
(* Texts                                                                   *)
(***************************************************************************)
T(s) == [s |-> s, pad |-> 0]

Long(s, n) == [s |-> s, pad |-> n]

EmptyText == T(<<>>)

\* String.prototype.length
TLen(t) == Len(t.s) + t.pad

\* The i-th character, 1 <= i <= TLen(t)
CharAt(t, i) == IF i <= Len(t.s) THEN t.s[i] ELSE "x"

\* The one representation of a string: no letter x at the end of s (it is pad)
RECURSIVE Norm(_)
Norm(t) ==
    IF t.s # <<>> /\ t.s[Len(t.s)] = "x"
    THEN Norm([s |-> SubSeq(t.s, 1, Len(t.s) - 1), pad |-> t.pad + 1])
    ELSE t

\* The characters a..b of t (empty when a > b)
Sub(t, a, b) ==
    IF a > b THEN EmptyText
    ELSE IF b <= Len(t.s) THEN Norm(T(SubSeq(t.s, a, b)))
    ELSE IF a <= Len(t.s) THEN Norm(Long(SubSeq(t.s, a, Len(t.s)), b - Len(t.s)))
    ELSE Long(<<>>, b - a + 1)

\* Character classes: [set] when neg is FALSE, [^set] when TRUE
Cls(set) == [neg |-> FALSE, set |-> set]

NotCls(set) == [neg |-> TRUE, set |-> set]

InClass(ch, C) == (ch \in C.set) # C.neg

WS == {" ", "NL", "TAB"}

UpperSeq == <<"A", "B", "C", "D", "E", "F", "G", "H", "I", "J", "K", "L", "M",
              "N", "O", "P", "Q", "R", "S", "T", "U", "V", "W", "X", "Y", "Z">>

LowerSeq == <<"a", "b", "c", "d", "e", "f", "g", "h", "i", "j", "k", "l", "m",
              "n", "o", "p", "q", "r", "s", "t", "u", "v", "w", "x", "y", "z">>

Upper == {UpperSeq[i] : i \in DOMAIN UpperSeq}

Lower == {LowerSeq[i] : i \in DOMAIN LowerSeq}

WordCh == Upper \cup Lower \cup {"0", "1", "2", "3", "4", "5", "6", "7", "8", "9", "_"}

RECURSIVE ScanS(_, _, _)
ScanS(s, c, C) == IF c <= Len(s) /\ InClass(s[c], C) THEN ScanS(s, c + 1, C) ELSE c - 1

\* The end of the longest run of characters of class C that starts at c
\* (c - 1 when the character at c is not of the class, or c is past the end)
IntoPad(t, e, C) ==
    IF e = Len(t.s) /\ t.pad > 0 /\ InClass("x", C) THEN TLen(t) ELSE e

RunEnd(t, c, C) ==
    IF c > Len(t.s)
    THEN IF c <= TLen(t) /\ InClass("x", C) THEN TLen(t) ELSE c - 1
    ELSE IntoPad(t, ScanS(t.s, c, C), C)

RECURSIVE ScanBack(_, _)
ScanBack(s, e) == IF e >= 1 /\ s[e] \in WS THEN ScanBack(s, e - 1) ELSE e

\* String.prototype.trim
trim(t) ==
    Sub(t, RunEnd(t, 1, Cls(WS)) + 1,
           IF t.pad > 0 THEN TLen(t) ELSE ScanBack(t.s, Len(t.s)))

\* A JavaScript string is truthy when it is not empty
Truthy(t) == TLen(t) > 0

\* The first line of a trimmed text, trimmed
UpToNL(u) == trim(Sub(u, 1, RunEnd(u, 1, NotCls({"NL"}))))

\* x.split(/\n/).map(s => s.trim()).filter(Boolean)[0] || ''
FirstLine(t) == UpToNL(trim(t))

\* lit is a sequence of sets of characters; whether t has it at position p
LitAt(t, p, lit) ==
    /\ p >= 1
    /\ p + Len(lit) - 1 <= Len(t.s)
    /\ \A j \in 1..Len(lit) : t.s[p + j - 1] \in lit[j]

LastChar(t) == CharAt(t, TLen(t))

(***************************************************************************)
(* splitIntoChunks (server.ts 80-96, part_000 6-22)                        *)
(***************************************************************************)
CHUNK_SIZE == 5500

\* The loop body without the test current.length > 0
SplitStepCloseAlways(st, p, maxChars) ==
    IF st.size + TLen(p) > maxChars
    THEN [chunks |-> Append(st.chunks, st.current), current |-> <<p>>, size |-> TLen(p)]
    ELSE [chunks |-> st.chunks, current |-> Append(st.current, p), size |-> st.size + TLen(p)]

\* The loop body with current = [] in place of current = [p]
SplitStepDropOnClose(st, p, maxChars) ==
    IF st.size + TLen(p) > maxChars /\ Len(st.current) > 0
    THEN [chunks |-> Append(st.chunks, st.current), current |-> <<>>, size |-> 0]
    ELSE [chunks |-> st.chunks, current |-> Append(st.current, p), size |-> st.size + TLen(p)]

\* The loop body with size = 0 in place of size = p.length
SplitStepSizeZero(st, p, maxChars) ==
    IF st.size + TLen(p) > maxChars /\ Len(st.current) > 0
    THEN [chunks |-> Append(st.chunks, st.current), current |-> <<p>>, size |-> 0]
    ELSE [chunks |-> st.chunks, current |-> Append(st.current, p), size |-> st.size + TLen(p)]

\* One iteration of the for loop over paragraphs: st = [chunks, current, size].
SplitStep(st, p, maxChars) ==
    IF st.size + TLen(p) > maxChars /\ Len(st.current) > 0
    THEN [chunks |-> Append(st.chunks, st.current), current |-> <<p>>, size |-> TLen(p)]
    ELSE [chunks |-> st.chunks, current |-> Append(st.current, p), size |-> st.size + TLen(p)]

RECURSIVE SplitLoop(_, _, _, _)
SplitLoop(st, paras, k, maxChars) ==
    IF k > Len(paras) THEN st
    ELSE SplitLoop(SplitStep(st, paras[k], maxChars), paras, k + 1, maxChars)

\* line 94
closeLast(st) == IF Len(st.current) > 0 THEN Append(st.chunks, st.current) ELSE st.chunks

splitIntoChunks(paras, maxChars) ==
    closeLast(SplitLoop([chunks |-> <<>>, current |-> <<>>, size |-> 0], paras, 1, maxChars))

(***************************************************************************)
(* Helpers over sequences of sequences                                     *)
(***************************************************************************)
RECURSIVE Flatten(_)
Flatten(ss) == IF ss = <<>> THEN <<>> ELSE Head(ss) \o Flatten(Tail(ss))

RECURSIVE SumLen(_)
SumLen(ps) == IF ps = <<>> THEN 0 ELSE TLen(Head(ps)) + SumLen(Tail(ps))

\* All sequences over S of length 0..n
SeqsUpTo(S, n) == UNION {[1..k -> S] : k \in 0..n}

(***************************************************************************)
(* mergeZhWithParagraphs (server.ts 194-202, part_000 58-66,               *)
(* api/translate.ts 42-50)                                                 *)
(*                                                                         *)
(* An element of the recovered array is [k, en, zh]:                       *)
(*   k = "str"        a string, held in zh                                 *)
(*   k = "objzh"      an object with a zh key holding the string zh        *)
(*   k = "objzhnull"  an object with a zh key holding null                 *)
(*   k = "objboth"    an object with the keys en and zh, both strings      *)
(*   k = "objen"      an object with an en key (string) and no zh key      *)
(*   k = "objennull"  an object with an en key holding null, no zh key     *)
(*   k = "emptyobj"   the object {}                                        *)
(*   k = "null"       null                                                 *)
(*   k = "num"        a number                                             *)
(*   k = "undef"      raw[i] for i beyond the array                        *)
(***************************************************************************)
Elem(k, en, zh) == [k |-> k, en |-> en, zh |-> zh]

Undefined == Elem("undef", EmptyText, EmptyText)

\* raw[i], i counted from 1 here
RawAt(raw, i) == IF i \in 1..Len(raw) THEN raw[i] ELSE Undefined

Pair(en, zh) == [en |-> en, zh |-> zh]

\* The callback with the test for 'en' put before the test for 'zh'
MergeOneEnFirst(en, v) ==
    IF v.k = "str" THEN Pair(en, v.zh)
    ELSE IF v.k = "objboth" THEN Pair(v.en, v.zh)
    ELSE IF v.k = "objzh" THEN Pair(en, v.zh)
    ELSE IF v.k = "objen" THEN Pair(v.en, EmptyText)
    ELSE Pair(en, EmptyText)

\* The callback of paragraphs.map: lines 196-200.
MergeOne(en, v) ==
    IF v.k = "str" THEN Pair(en, v.zh)
    ELSE IF v.k \in {"objzh", "objboth"} THEN Pair(en, v.zh)
    ELSE IF v.k = "objzhnull" THEN Pair(en, EmptyText)
    ELSE IF v.k = "objen" THEN Pair(v.en, EmptyText)
    ELSE IF v.k = "objennull" THEN Pair(en, EmptyText)
    ELSE Pair(en, EmptyText)

\* raw.map in place of paragraphs.map
MergeOverRecovered(paras, raw) ==
    [i \in 1..Len(raw) |-> MergeOne(IF i <= Len(paras) THEN paras[i] ELSE EmptyText, raw[i])]

mergeZhWithParagraphs(paras, raw) ==
    [i \in 1..Len(paras) |-> MergeOne(paras[i], RawAt(raw, i))]

(***************************************************************************)
(* extractTitleAuthorFromTranslation (server.ts 36-75, part_000 24-56,     *)
(* api/translate.ts 4-40)                                                  *)
(*                                                                         *)
(* A title or author value is [k, en, zh]: k = "absent" (undefined, null   *)
(* or another falsy value) or k = "obj" (an object {en, zh}).              *)
(***************************************************************************)
Absent == [k |-> "absent", en |-> EmptyText, zh |-> EmptyText]

Name(en, zh) == [k |-> "obj", en |-> en, zh |-> zh]

Colons == {"FCOLON", ":"}

maxLen == 60

\* The pairs without slice(0, 4)
firstFewAll(translation) ==
    [i \in 1..Len(translation) |-> Pair(trim(translation[i].en), trim(translation[i].zh))]

\* translation.slice(0, 4).map(p => ({en: p.en.trim(), zh: p.zh.trim()}))
firstFew(translation) ==
    [i \in 1..(IF Len(translation) < 4 THEN Len(translation) ELSE 4) |->
        Pair(trim(translation[i].en), trim(translation[i].zh))]

\* ^[Bb]y\s+\w+ once "By" and one white space are there: e ends the white space
WordAfter(t, e) == e + 1 <= TLen(t) /\ CharAt(t, e + 1) \in WordCh

\* line 49: /^ZUOZHE[FCOLON:]|^Author[FCOLON:\s]|^[Bb]y\s+\w+/ on the source
\* line, /^ZUOZHE[FCOLON:]/ on the target line
isAuthorLine(firstLineEn, firstLineZh) ==
    \/ LitAt(firstLineEn, 1, <<{"ZUO"}, {"ZHE"}, Colons>>)
    \/ LitAt(firstLineEn, 1, <<{"A"}, {"u"}, {"t"}, {"h"}, {"o"}, {"r"}, Colons \cup WS>>)
    \/ /\ LitAt(firstLineEn, 1, <<{"B", "b"}, {"y"}, WS>>)
       /\ WordAfter(firstLineEn, RunEnd(firstLineEn, 3, Cls(WS)))
    \/ LitAt(firstLineZh, 1, <<{"ZUO"}, {"ZHE"}, Colons>>)

\* line 51
enShort(firstLineEn) ==
    /\ TLen(firstLineEn) <= maxLen
    /\ ~(Truthy(firstLineEn) /\ LastChar(firstLineEn) \in {".", "!", "?"})

\* line 52
zhShort(firstLineZh) ==
    /\ TLen(firstLineZh) <= maxLen
    /\ ~(Truthy(firstLineZh) /\ LastChar(firstLineZh) \in {"ZSTOP", "ZBANG", "ZQM"})

\* lines 49-55
titleFromLines(firstLineEn, firstLineZh) ==
    IF ~isAuthorLine(firstLineEn, firstLineZh) /\ (enShort(firstLineEn) \/ zhShort(firstLineZh))
    THEN Name(firstLineEn, firstLineZh)
    ELSE Absent

\* lines 44-48
titleFromFirst(first) ==
    IF Truthy(first.en) \/ Truthy(first.zh)
    THEN titleFromLines(FirstLine(first.en), FirstLine(first.zh))
    ELSE Absent

\* lines 43-56: the title pass
extractTitle(translation) ==
    IF translation = <<>> THEN Absent ELSE titleFromFirst(firstFew(translation)[1])

\* A regular expression  lit sep{sepMin,} (cap+ ext?)  with one capture group
Alt(lit, sep, sepMin, cap, ext) ==
    [lit |-> lit, sep |-> sep, sepMin |-> sepMin, cap |-> cap, ext |-> ext]

NoMatch == [ok |-> FALSE, cs |-> 0, ce |-> 0]

SetMax(S) == CHOOSE m \in S : \A n \in S : n <= m

\* (?:\s+[A-Z][a-z]+)? after a capture that ends at ce: we ends the white
\* space, le the lower-case letters
ExtWord(t, ce, we, le) ==
    IF we >= ce + 1 /\ we + 1 <= TLen(t) /\ CharAt(t, we + 1) \in Upper /\ le >= we + 2
    THEN le ELSE ce

ExtFrom(t, ce, we) == ExtWord(t, ce, we, RunEnd(t, we + 2, Cls(Lower)))

ExtEnd(t, ce) == ExtFrom(t, ce, RunEnd(t, ce + 1, Cls(WS)))

\* The capture that starts at cs
CapEnd(t, cs, alt) ==
    IF alt.ext THEN ExtEnd(t, RunEnd(t, cs, alt.cap)) ELSE RunEnd(t, cs, alt.cap)

\* The numbers of separator characters the match may take, w at most
CapStarts(t, q, w, alt) ==
    {k \in alt.sepMin..w : q + k <= TLen(t) /\ InClass(CharAt(t, q + k), alt.cap)}

\* Greedy: the separator takes as many characters as a match allows
FromStarts(t, q, ks, alt) ==
    IF ks = {} THEN NoMatch
    ELSE [ok |-> TRUE, cs |-> q + SetMax(ks), ce |-> CapEnd(t, q + SetMax(ks), alt)]

AfterLit(t, q, alt) ==
    FromStarts(t, q, CapStarts(t, q, RunEnd(t, q, alt.sep) - q + 1, alt), alt)

\* The match of alt that starts at p, greedy with backtracking
TryAlt(t, p, alt) ==
    IF LitAt(t, p, alt.lit) THEN AfterLit(t, p + Len(alt.lit), alt) ELSE NoMatch

OrElse(m0, m1) == IF m0.ok THEN m0 ELSE m1

\* The alternatives alts[j..] at position p, in their order
RECURSIVE TryAlts(_, _, _, _)
TryAlts(t, p, alts, j) ==
    IF j > Len(alts) THEN NoMatch
    ELSE OrElse(TryAlt(t, p, alts[j]), TryAlts(t, p, alts, j + 1))

\* String.prototype.match: the leftmost match, from position p on
RECURSIVE Search(_, _, _)
Search(t, alts, p) ==
    IF p > Len(t.s) THEN NoMatch
    ELSE OrElse(TryAlts(t, p, alts, 1), Search(t, alts, p + 1))

\* m?.[1]?.trim() || ''
Captured(t, m) == IF m.ok THEN trim(Sub(t, m.cs, m.ce)) ELSE EmptyText

\* lines 59-62: authorPatterns
ZhStrict == Alt(<<{"ZUO"}, {"ZHE"}, Colons>>, Cls(WS), 0, NotCls({"NL", "ZSTOP", "ZCOMMA"}), FALSE)

ZhLoose == Alt(<<{"ZUO"}, {"ZHE"}>>, Cls(WS), 0, NotCls({"NL", "ZSTOP", "ZCOMMA"}), FALSE)

EnStrict == Alt(<<{"A", "a"}, {"U", "u"}, {"T", "t"}, {"H", "h"}, {"O", "o"}, {"R", "r"}>>,
                Cls(Colons \cup WS), 1, NotCls({"NL", ".", ","}), FALSE)

EnLoose == Alt(<<{"B", "b"}, {"y"}>>, Cls(WS), 1, NotCls({"NL", ".", ","}), TRUE)

\* lines 64-67
nameZh(zh) ==
    Captured(zh, OrElse(Search(zh, <<ZhStrict>>, 1), Search(zh, <<ZhStrict, ZhLoose>>, 1)))

nameEn(en) ==
    Captured(en, OrElse(Search(en, <<EnStrict>>, 1), Search(en, <<EnLoose>>, 1)))

\* lines 68-71
authorFromNames(nz, ne) == IF Truthy(nz) \/ Truthy(ne) THEN Name(ne, nz) ELSE Absent

orNextPair(author, rest) == IF author.k = "obj" THEN author ELSE rest

\* lines 63-72: the author pass over the pairs ff, from pair j on
RECURSIVE AuthorLoop(_, _)
AuthorLoop(ff, j) ==
    IF j > Len(ff) THEN Absent
    ELSE orNextPair(authorFromNames(nameZh(ff[j].zh), nameEn(ff[j].en)), AuthorLoop(ff, j + 1))

extractAuthor(translation) == AuthorLoop(firstFew(translation), 1)

extractTitleAuthorFromTranslation(translation) ==
    [title |-> extractTitle(translation), author |-> extractAuthor(translation)]

\* isEmpty (server.ts 249-252): only the first non-empty language is looked at
RemoveDashes(t) ==
    [s |-> SelectSeq(t.s, LAMBDA ch : ch \notin {"EMDASH", "-"}), pad |-> t.pad]

firstTruthy(e, z) == IF Truthy(e) THEN e ELSE z

isEmpty(n) == ~Truthy(RemoveDashes(firstTruthy(trim(n.en), trim(n.zh))))

(***************************************************************************)
(* The recovered response and parseDeepSeekJson (server.ts 98-107,         *)
(* part_000 117-126, api/translate.ts 146-163)                             *)
(*                                                                         *)
(* A recovered object is [translation, title, author, analysis];           *)
(* translation is [k, arr] with k = "absent", "array" or "notarray" (a     *)
(* string, a number, an object); analysis is "none" or an identifier.      *)
(* The reply text is [wrap, comma, relaxed, valid, obj]: the JSON text of  *)
(* obj, wrapped in nothing ("none"), a code fence ("fence") or prose       *)
(* around the braces ("prose"), with a trailing comma (comma), written in  *)
(* JSON5 only syntax (relaxed), or not JSON at all (valid = FALSE).        *)
(***************************************************************************)
Tr(k, arr) == [k |-> k, arr |-> arr]

\* kind is "object" for a map of fields; the fields read off any other JSON
\* value (json?.translation and so on) are all absent
Obj(translation, title, author, analysis) ==
    [kind |-> "object", translation |-> translation, title |-> title,
     author |-> author, analysis |-> analysis]

EmptyObj == Obj(Tr("absent", <<>>), Absent, Absent, "none")

\* what JSON.parse gives for the text null
NullJson == [EmptyObj EXCEPT !.kind = "null"]

Text(wrap, comma, relaxed, valid, obj) ==
    [wrap |-> wrap, comma |-> comma, relaxed |-> relaxed, valid |-> valid, obj |-> obj]

Parsed(ok, obj) == [ok |-> ok, obj |-> obj]

\* the tokens of every string value written in the text of obj
stringTokens(obj) ==
    obj.title.en.s \o obj.title.zh.s \o obj.author.en.s \o obj.author.zh.s
    \o Flatten([i \in 1..Len(obj.translation.arr) |->
                   obj.translation.arr[i].en.s \o obj.translation.arr[i].zh.s])

\* how many times the text of obj holds a triple backtick inside its strings
fencesIn(obj) ==
    Cardinality({i \in 1..Len(stringTokens(obj)) : stringTokens(obj)[i] = "FENCE"})

\* JSON.parse
JSONparse(text) ==
    IF text.wrap = "none" /\ ~text.comma /\ ~text.relaxed /\ text.valid
    THEN Parsed(TRUE, text.obj) ELSE Parsed(FALSE, EmptyObj)

\* JSON5.parse
JSON5parse(text) ==
    IF text.wrap = "none" /\ text.valid
    THEN Parsed(TRUE, text.obj) ELSE Parsed(FALSE, EmptyObj)

\* /,(\s*[\]}])/ at position i of s: a comma, any white space, then ] or }
commaBeforeClose(s, i) ==
    /\ s[i] = ","
    /\ \E j \in (i + 1)..Len(s) :
          /\ s[j] \in {"]", "}"}
          /\ \A k \in (i + 1)..(j - 1) : s[k] \in WS

RECURSIVE cutFrom(_, _)
cutFrom(s, i) ==
    IF i > Len(s) THEN <<>>
    ELSE (IF commaBeforeClose(s, i) THEN <<>> ELSE <<s[i]>>) \o cutFrom(s, i + 1)

\* the replace acts on the whole text, the inside of its strings included
cutPair(p) ==
    [p EXCEPT !.en = [s |-> cutFrom(@.s, 1), pad |-> @.pad],
              !.zh = [s |-> cutFrom(@.s, 1), pad |-> @.pad]]

\* s.replace(/,(\s*[\]}])/g, '$1')
sanitizeJson(text) ==
    [text EXCEPT !.comma = FALSE,
                 !.obj = [@ EXCEPT !.translation.arr = [i \in DOMAIN @ |-> cutPair(@[i])],
                                   !.title = cutPair(@),
                                   !.author = cutPair(@)]]

\* a text no grammar accepts: a block cut inside a string
Broken == Text("none", FALSE, FALSE, FALSE, EmptyObj)

\* the text {} taken when neither pattern matches
Braces == Text("none", FALSE, FALSE, TRUE, EmptyObj)

\* line 104, /```(?:json)?\s*([\s\S]*?)```/: the lazy group ends at the first
\* triple backtick after the opening one, wherever it stands
fenceMatch(text) ==
    IF text.wrap = "fence"
    THEN (IF text.valid /\ fencesIn(text.obj) > 0 THEN Broken
          ELSE [text EXCEPT !.wrap = "none"])
    ELSE Broken

\* line 104, /\{[\s\S]*\}/: from the first { to the last }
braceMatch(text) ==
    IF text.valid /\ text.obj.kind = "object" THEN [text EXCEPT !.wrap = "none"]
    ELSE Braces

\* lines 104-105: the fenced block when the text holds two triple backticks,
\* else the span of the braces, else {}
extracted(text) ==
    IF text.wrap = "fence" \/ (text.valid /\ fencesIn(text.obj) >= 2) THEN fenceMatch(text)
    ELSE braceMatch(text)

\* The cascade with JSON5.parse(content) tried before the sanitized text
parseLenientFirst(content) ==
    IF JSONparse(content).ok THEN JSONparse(content).obj
    ELSE IF JSON5parse(content).ok THEN JSON5parse(content).obj
    ELSE IF JSONparse(sanitizeJson(content)).ok THEN JSONparse(sanitizeJson(content)).obj
    ELSE IF JSON5parse(extracted(content)).ok THEN JSON5parse(extracted(content)).obj
    ELSE EmptyObj

\* lines 101-106: each return sits in its own try, the next line runs when it threw
parseDeepSeekJson(content) ==
    IF JSONparse(content).ok THEN JSONparse(content).obj
    ELSE IF JSONparse(sanitizeJson(content)).ok THEN JSONparse(sanitizeJson(content)).obj
    ELSE IF JSON5parse(content).ok THEN JSON5parse(content).obj
    ELSE IF JSON5parse(extracted(content)).ok THEN JSON5parse(extracted(content)).obj
    ELSE EmptyObj

(***************************************************************************)
(* callDeepSeek (server.ts 109-143, part_000 128-161)                      *)
(*                                                                         *)
(* What the remote engine does with one call is an outcome o:              *)
(*   [kind |-> "ok", content]         status 200, choices[0].message.content *)
(*   [kind |-> "http", status, body]  a non-OK status; body is "json_msg"  *)
(*        (JSON with error.message), "json_bare" (JSON without a message)  *)
(*        or "text" (not JSON)                                             *)
(*   [kind |-> "transport"]           fetch rejects                        *)
(***************************************************************************)
Ok(content) == [kind |-> "ok", content |-> content, status |-> 200, body |-> "none"]

Http(status, body) ==
    [kind |-> "http", content |-> Text("none", FALSE, FALSE, FALSE, EmptyObj),
     status |-> status, body |-> body]

Transport ==
    [kind |-> "transport", content |-> Text("none", FALSE, FALSE, FALSE, EmptyObj),
     status |-> 0, body |-> "none"]

\* lines 130-137
userMsg(status, body) ==
    IF body = "text" THEN "DeepSeek API call failed"
    ELSE IF status = 401 THEN "API Key invalid or expired"
    ELSE IF status = 429 THEN "Too many requests, retry later"
    ELSE IF body = "json_msg" THEN "error.message of the body"
    ELSE "DeepSeek API call failed"

Returned(json) == [threw |-> FALSE, msg |-> "", json |-> json]

Threw(msg) == [threw |-> TRUE, msg |-> msg, json |-> EmptyObj]

\* callDeepSeek with a failed call giving {} in place of a throw
callDeepSeekSwallow(o) ==
    IF o.kind = "ok" THEN Returned(parseDeepSeekJson(o.content)) ELSE Returned(EmptyObj)

\* callDeepSeek throwing without a message
callDeepSeekBareThrow(o) ==
    IF o.kind = "ok" THEN Returned(parseDeepSeekJson(o.content)) ELSE Threw("")

callDeepSeek(o) ==
    IF o.kind = "transport" THEN Threw("fetch failed")
    ELSE IF o.kind = "http" THEN Threw(userMsg(o.status, o.body))
    ELSE Returned(parseDeepSeekJson(o.content))

MalformedMsg == "malformed model response, retry"

(***************************************************************************)
(* The requests and the remote engine's answers the model draws from       *)
(***************************************************************************)
Placeholders == {"YOUR_DEEPSEEK_API_KEY", "ZH_YOUR_DEEPSEEK_KEY", "ZH_YOUR_KEY"}

ValidKey == T(<<"s", "k", "-", "1">>)

KeyPool == {EmptyText, T(<<" ", " ">>), T(<<"s", "k", "ZH_YOUR_KEY">>), ValidKey}

PTitle == T(<<"T", "O", "K", "Y", "O", " ", "W", "E", "E", "D", "S">>)

PAuthor == T(<<"B", "y", " ", "A", "m", "o", "s", " ", "L", "e", "e">>)

\* 5011 characters: two of them do not fit in one chunk
PBody == Long(<<"I", "t", " ", "r", "a", "i", "n", "e", "d", ".", " ">>, 5000)

ParagraphPool == {PTitle, PAuthor, PBody}

ZhTitle == T(<<"ZDONG", "ZJING", "ZZA", "ZCAO">>)

ZhAuthor == T(<<"ZUO", "ZHE", "FCOLON", "ZAA", "ZMO", "ZSI">>)

ZhBody == T(<<"ZXIA", "ZYU", "ZLE", "ZSTOP">>)

\* The translation of a paragraph of the pool
ZhOf(p) == IF p = PTitle THEN ZhTitle ELSE IF p = PAuthor THEN ZhAuthor ELSE ZhBody

\* req.body: paragraphs an array, missing, or something that is no array
Body(k, items) == [k |-> k, items |-> items]

Bodies ==
    {Body("array", ps) : ps \in SeqsUpTo(ParagraphPool, MaxParas)}
        \cup {Body("missing", <<>>), Body("notarray", <<>>)}

Methods == {"POST", "OPTIONS", "GET"}

\* Recovered arrays for the chunk c: one string per paragraph; one short;
\* one too long, that starts with null and holds an object with an en key
Good(c) == [i \in 1..Len(c) |-> Elem("str", EmptyText, ZhOf(c[i]))]

Short(c) == SubSeq(Good(c), 1, Len(c) - 1)

Mixed(c) ==
    <<Elem("null", EmptyText, EmptyText)>> \o Tail(Good(c))
        \o <<Elem("objen", T(<<"E", "x", "t", "r", "a">>), EmptyText)>>

SuppliedTitle == Name(PTitle, ZhTitle)

SuppliedAuthor == Name(T(<<"A", "m", "o", "s", " ", "L", "e", "e">>), T(<<"ZAA", "ZMO", "ZSI">>))

\* A title whose en is a dash placeholder and whose zh is a real title
DashEnTitle == Name(T(<<"EMDASH">>), T(<<"ZHUA", "ZCAO">>))

DashAuthor == Name(T(<<"-">>), T(<<"EMDASH", "EMDASH">>))

\* The non-OK answers: three statuses, each with the three kinds of body
HttpOutcomes ==
    {Http(status, body) : status \in {401, 429, 500},
                          body \in {"json_msg", "json_bare", "text"}}

FirstOutcomes(c) ==
    HttpOutcomes \cup
    { Ok(Text("none", FALSE, FALSE, TRUE,
              Obj(Tr("array", Good(c)), SuppliedTitle, SuppliedAuthor, "an1"))),
      Ok(Text("fence", TRUE, FALSE, TRUE,
              Obj(Tr("array", Good(c)), Absent, Absent, "an1"))),
      Ok(Text("none", TRUE, FALSE, TRUE,
              Obj(Tr("array", Short(c)), DashEnTitle, DashAuthor, "none"))),
      Ok(Text("none", FALSE, TRUE, TRUE,
              Obj(Tr("notarray", <<>>), SuppliedTitle, SuppliedAuthor, "an1"))),
      Ok(Text("none", FALSE, FALSE, FALSE, EmptyObj)),
      Transport }

RestOutcomes(c) ==
    { Ok(Text("none", FALSE, FALSE, TRUE,
              Obj(Tr("array", Good(c)), Absent, Absent, "none"))),
      Ok(Text("prose", FALSE, FALSE, TRUE,
              Obj(Tr("array", Mixed(c)), SuppliedTitle, SuppliedAuthor, "an2"))),
      Ok(Text("none", FALSE, FALSE, FALSE, EmptyObj)),
      Http(429, "text"),
      Http(401, "json_bare"),
      Http(500, "json_msg"),
      Transport }

(***************************************************************************)
(* Parts the handlers share                                                *)
(***************************************************************************)
\* The key test without placeholders.some(...)
keyMissingWhenBlank(key) == ~Truthy(trim(key))

\* lines 205-207 of server.ts: the key is missing or a placeholder
keyMissing(key) ==
    LET k == trim(key)
    IN  ~Truthy(k) \/ \E i \in 1..Len(k.s) : k.s[i] \in Placeholders

\* !Array.isArray(paragraphs) || paragraphs.length === 0
noParagraphs(body) == body.k # "array" \/ Len(body.items) = 0

NoResult == [none |-> TRUE]

Result(title, author, analysis, translation) ==
    [title |-> title, author |-> author, analysis |-> analysis, translation |-> translation]

Response(status, error, result) == [status |-> status, error |-> error, result |-> result]

Call(chunk, prompt) == [chunk |-> chunk, prompt |-> prompt]

Answer(chunk, o) == [chunk |-> chunk, o |-> o]

Progress(chunk, total, percent) ==
    [type |-> "progress", chunk |-> chunk, total |-> total, percent |-> percent]

\* The done record with the analysis left out of the result
DoneEventNoAnalysis(result) ==
    [type |-> "done", result |-> [result EXCEPT !.analysis = "none"]]

DoneEvent(result) == [type |-> "done", result |-> result]

ErrorEvent(message) == [type |-> "error", message |-> message]

\* Math.floor in place of Math.round
percentFloor(k, total) == (100 * k) \div total

\* Math.round((k / total) * 100)
percentOf(k, total) == (200 * k + total) \div (2 * total)

\* server.ts 244-260: title and author defaults, the fallback, the result
orEmpty(n) == IF n.k = "absent" THEN Name(EmptyText, EmptyText) ELSE n

usable(n) == n.k = "obj" /\ (Truthy(n.en) \/ Truthy(n.zh))

withFallback(supplied, fallback) ==
    IF isEmpty(orEmpty(supplied)) /\ usable(fallback) THEN fallback ELSE orEmpty(supplied)

\* The result built from title, author and translation only
resultWithoutAnalysis(fj, fallback, all) ==
    Result(withFallback(fj.title, fallback.title),
           withFallback(fj.author, fallback.author),
           "none", all)

resultWith(fj, fallback, all) ==
    Result(withFallback(fj.title, fallback.title),
           withFallback(fj.author, fallback.author),
           fj.analysis, all)

finalResult(fj, all) == resultWith(fj, extractTitleAuthorFromTranslation(all), all)

\* !firstJson?.translation in place of !Array.isArray(...)
missingTranslationWhenAbsent(json) == json.translation.k = "absent"

\* !Array.isArray(firstJson?.translation)
missingTranslation(json) == json.translation.k # "array"

\* if (Array.isArray(chunkJson?.translation)) allTranslations.push(...merge(..))
pushMerged(all, chunk, json) ==
    IF json.translation.k = "array"
    THEN all \o mergeZhWithParagraphs(chunk, json.translation.arr)
    ELSE all

(***************************************************************************)
(* Initial state: the server is up, no request has arrived                 *)
(***************************************************************************)
IdleRun ==
    /\ reqMethod = "none"
    /\ reqBody = Body("none", <<>>)
    /\ handler = "none"
    /\ pc = "idle"
    /\ paragraphs = <<>>
    /\ chunks = <<>>
    /\ firstJson = EmptyObj
    /\ allTranslations = <<>>
    /\ loopI = 0
    /\ inflight = {}
    /\ settled = <<>>
    /\ calls = <<>>
    /\ remote = <<>>
    /\ events = <<>>
    /\ ended = FALSE
    /\ responses = <<>>

NoPure == fnArg = <<>> /\ fnOut = <<>> /\ fnDone = FALSE

\* App.tsx 64-95: nothing uploaded yet, no history stored, and the GET sent at
\* mount has settled without items
IdleClient ==
    /\ phase = "idle"
    /\ isTranslating = FALSE
    /\ uiError = ""
    /\ shown = NoResult
    /\ history = <<>>
    /\ saveCalls = 0
    /\ cloudPosts = {}
    /\ aborted = FALSE
    /\ cloudGet = "settled"
    /\ removed = {}

Init == apiKey \in KeyPool /\ IdleRun /\ IdleClient /\ NoPure

\* The request is taken by handler h
Take(h, method, body) == handler' = h /\ reqMethod' = method /\ reqBody' = body

\* return res.status(status).json({error})  before any remote call
Reject(status, error) ==
    /\ pc' = "done"
    /\ responses' = Append(responses, Response(status, error, NoResult))
    /\ UNCHANGED <<apiKey, paragraphs, chunks, firstJson, allTranslations, loopI,
                   inflight, settled, calls, remote, events, ended>>

(***************************************************************************)
(* The batch handler: server.ts 204-266                                    *)
(***************************************************************************)
\* lines 205-223: from the request to the first remote call
BatchTake(body) ==
    /\ pc = "idle"
    /\ Take("batch", "POST", body)
    /\ IF keyMissing(apiKey) THEN Reject(503, "configure DEEPSEEK_API_KEY")
       ELSE IF noParagraphs(body) THEN Reject(400, "paragraphs is required")
       ELSE /\ pc' = "awaitFirst"
            /\ paragraphs' = body.items
            /\ chunks' = splitIntoChunks(body.items, CHUNK_SIZE)
            /\ calls' = Append(calls, Call(1, "full"))
            /\ inflight' = {1}
            /\ UNCHANGED <<apiKey, firstJson, allTranslations, loopI, settled, remote,
                           events, ended, responses>>

\* The request comes from a caller other than App.tsx
BatchRequest(body) == BatchTake(body) /\ UNCHANGED <<pureVars, clientVars>>

\* The results in the order the calls returned in
PromiseAllInSettleOrder(stl) == [i \in 1..Len(stl) |-> stl[i].json]

\* Promise.all's value: the results by position, whatever the order they came in
PromiseAll(stl) ==
    [i \in 1..Len(stl) |-> (CHOOSE e \in {stl[j] : j \in 1..Len(stl)} : e.chunk = i + 1).json]

\* lines 236-241: the loop over restChunks, from position i on
RECURSIVE pushRest(_, _, _, _)
pushRest(all, restChunks, restResults, i) ==
    IF i > Len(restChunks) THEN all
    ELSE pushRest(pushMerged(all, restChunks[i], restResults[i]), restChunks, restResults, i + 1)

\* Each trailing chunk sent twice
restCallsTwice(n) ==
    [i \in 1..(2 * (n - 1)) |-> Call(((i + 1) \div 2) + 1, "translationOnly")]

\* lines 233-235: restChunks.map(chunk => callDeepSeek(...)), one call a chunk
restCalls(n) == [i \in 1..(n - 1) |-> Call(i + 1, "translationOnly")]

\* lines 223-260: the first call returns; the trailing calls are all issued
BatchFirstReturns ==
    /\ handler = "batch" /\ pc = "awaitFirst"
    /\ \E o \in FirstOutcomes(chunks[1]) :
       LET r == callDeepSeek(o)
           n == Len(chunks)
       IN  /\ remote' = Append(remote, Answer(1, o))
           /\ IF r.threw
              THEN /\ responses' = Append(responses, Response(500, r.msg, NoResult))
                   /\ pc' = "done" /\ inflight' = {}
                   /\ UNCHANGED <<firstJson, allTranslations, calls>>
              ELSE IF missingTranslation(r.json)
              THEN /\ responses' = Append(responses, Response(500, MalformedMsg, NoResult))
                   /\ pc' = "done" /\ inflight' = {}
                   /\ UNCHANGED <<firstJson, allTranslations, calls>>
              ELSE LET all == mergeZhWithParagraphs(chunks[1], r.json.translation.arr)
                   IN  /\ firstJson' = r.json
                       /\ allTranslations' = all
                       /\ IF n > 1
                          THEN /\ calls' = calls \o restCalls(n)
                               /\ inflight' = 2..n
                               /\ pc' = "awaitRest"
                               /\ UNCHANGED responses
                          ELSE /\ responses' = Append(responses,
                                        Response(200, "", finalResult(r.json, all)))
                               /\ pc' = "done" /\ inflight' = {}
                               /\ UNCHANGED calls
    /\ UNCHANGED <<apiKey, reqMethod, reqBody, handler, paragraphs, chunks, loopI, settled, events, ended>>
    /\ UNCHANGED <<pureVars, clientVars>>

\* lines 233-265: a trailing call returns while Promise.all is awaited
BatchRestReturns(i) ==
    /\ handler = "batch" /\ pc = "awaitRest" /\ i \in inflight
    /\ \E o \in RestOutcomes(chunks[i]) :
       LET r == callDeepSeek(o)
           stl == Append(settled, [chunk |-> i, json |-> r.json])
       IN  /\ remote' = Append(remote, Answer(i, o))
           /\ inflight' = inflight \ {i}
           /\ IF r.threw
              THEN /\ responses' = Append(responses, Response(500, r.msg, NoResult))
                   /\ pc' = "done"
                   /\ UNCHANGED <<settled, allTranslations>>
              ELSE /\ settled' = stl
                   /\ IF inflight \ {i} = {}
                      THEN LET all == pushRest(allTranslations, Tail(chunks), PromiseAll(stl), 1)
                           IN  /\ allTranslations' = all
                               /\ responses' = Append(responses,
                                        Response(200, "", finalResult(firstJson, all)))
                               /\ pc' = "done"
                      ELSE UNCHANGED <<allTranslations, responses, pc>>
    /\ UNCHANGED <<apiKey, reqMethod, reqBody, handler, paragraphs, chunks, firstJson, loopI, calls, events, ended>>
    /\ UNCHANGED <<pureVars, clientVars>>

\* A trailing call returns after Promise.all rejected: nobody reads it
BatchLateReturn(i) ==
    /\ handler = "batch" /\ pc = "done" /\ i \in inflight
    /\ inflight' = inflight \ {i}
    /\ UNCHANGED <<apiKey, reqMethod, reqBody, handler, pc, paragraphs, chunks, firstJson, allTranslations,
                   loopI, settled, calls, remote, events, ended, responses>>
    /\ UNCHANGED <<pureVars, clientVars>>

(***************************************************************************)
(* The streaming handler: part_000 163-247                                 *)
(***************************************************************************)
\* The last record without res.end()
FinishOpen(evs, ev) == events' = Append(evs, ev) /\ ended' = FALSE /\ pc' = "done"

\* lines 240-241 and 209-210, 244-245: the last record, then res.end()
Finish(evs, ev) == events' = Append(evs, ev) /\ ended' = TRUE /\ pc' = "done"

\* lines 163-207
StreamTake(method, body) ==
    /\ pc = "idle"
    /\ Take("stream", method, body)
    /\ IF method = "OPTIONS" THEN Reject(204, "")
       ELSE IF method # "POST" THEN Reject(405, "Method not allowed")
       ELSE IF keyMissing(apiKey) THEN Reject(503, "configure DEEPSEEK_API_KEY")
       ELSE IF noParagraphs(body) THEN Reject(400, "paragraphs is required")
       ELSE /\ pc' = "awaitFirst"
            /\ paragraphs' = body.items
            /\ chunks' = splitIntoChunks(body.items, CHUNK_SIZE)
            /\ events' = Append(events,
                    Progress(0, Len(splitIntoChunks(body.items, CHUNK_SIZE)), 0))
            /\ calls' = Append(calls, Call(1, "full"))
            /\ inflight' = {1}
            /\ UNCHANGED <<apiKey, firstJson, allTranslations, loopI, settled, remote,
                           ended, responses>>

\* The request comes from a caller other than App.tsx
StreamRequest(method, body) == StreamTake(method, body) /\ UNCHANGED <<pureVars, clientVars>>

\* The step after chunk k with the remaining calls all started after chunk 1
StreamAdvanceEager(k, fj, all) ==
    LET n == Len(chunks)
        ev == Append(events, Progress(k, n, percentOf(k, n)))
    IN  IF k < n
        THEN /\ events' = ev
             /\ loopI' = k
             /\ calls' = (IF k = 1 THEN calls \o restCalls(n) ELSE calls)
             /\ inflight' = (k + 1)..n
             /\ pc' = "awaitChunk"
             /\ UNCHANGED ended
        ELSE /\ Finish(ev, DoneEvent(finalResult(fj, all)))
             /\ inflight' = {}
             /\ UNCHANGED <<loopI, calls>>

\* The step after chunk k without the progress record of the last chunk
StreamAdvanceQuietEnd(k, fj, all) ==
    LET n == Len(chunks)
        ev == Append(events, Progress(k, n, percentOf(k, n)))
    IN  IF k < n
        THEN /\ events' = ev
             /\ loopI' = k
             /\ calls' = Append(calls, Call(k + 1, "translationOnly"))
             /\ inflight' = {k + 1}
             /\ pc' = "awaitChunk"
             /\ UNCHANGED ended
        ELSE /\ Finish(events, DoneEvent(finalResult(fj, all)))
             /\ inflight' = {}
             /\ UNCHANGED <<loopI, calls>>

\* After chunk k (1-based) is merged into all: lines 214-216 and 221-241
StreamAdvance(k, fj, all) ==
    LET n == Len(chunks)
        ev == Append(events, Progress(k, n, percentOf(k, n)))
    IN  IF k < n
        THEN /\ events' = ev
             /\ loopI' = k
             /\ calls' = Append(calls, Call(k + 1, "translationOnly"))
             /\ inflight' = {k + 1}
             /\ pc' = "awaitChunk"
             /\ UNCHANGED ended
        ELSE /\ Finish(ev, DoneEvent(finalResult(fj, all)))
             /\ inflight' = {}
             /\ UNCHANGED <<loopI, calls>>

\* lines 207-216
StreamFirstReturns ==
    /\ handler = "stream" /\ pc = "awaitFirst"
    /\ \E o \in FirstOutcomes(chunks[1]) :
       LET r == callDeepSeek(o)
       IN  /\ remote' = Append(remote, Answer(1, o))
           /\ IF r.threw
              THEN /\ Finish(events, ErrorEvent(r.msg)) /\ inflight' = {}
                   /\ UNCHANGED <<firstJson, allTranslations, loopI, calls>>
              ELSE IF missingTranslation(r.json)
              THEN /\ Finish(events, ErrorEvent(MalformedMsg)) /\ inflight' = {}
                   /\ UNCHANGED <<firstJson, allTranslations, loopI, calls>>
              ELSE LET all == mergeZhWithParagraphs(chunks[1], r.json.translation.arr)
                   IN  /\ firstJson' = r.json
                       /\ allTranslations' = all
                       /\ StreamAdvance(1, r.json, all)
    /\ UNCHANGED <<apiKey, reqMethod, reqBody, handler, paragraphs, chunks, settled, responses>>
    /\ UNCHANGED <<pureVars, clientVars>>

\* lines 216-246: the call for chunks[i] returns
StreamChunkReturns ==
    /\ handler = "stream" /\ pc = "awaitChunk"
    /\ \E o \in RestOutcomes(chunks[loopI + 1]) :
       LET r == callDeepSeek(o)
           k == loopI + 1
       IN  /\ remote' = Append(remote, Answer(k, o))
           /\ IF r.threw
              THEN /\ Finish(events, ErrorEvent(r.msg)) /\ inflight' = {}
                   /\ UNCHANGED <<allTranslations, loopI, calls>>
              ELSE LET all == pushMerged(allTranslations, chunks[k], r.json)
                   IN  /\ allTranslations' = all
                       /\ StreamAdvance(k, firstJson, all)
    /\ UNCHANGED <<apiKey, reqMethod, reqBody, handler, paragraphs, chunks, firstJson, settled, responses>>
    /\ UNCHANGED <<pureVars, clientVars>>

\* The caller closes the connection of a streaming request under way; the
\* handler (lines 163-247) has no listener for it and never reads it
CallerAborts ==
    /\ handler = "stream" /\ pc \in {"awaitFirst", "awaitChunk"}
    /\ ~aborted
    /\ aborted' = TRUE
    /\ UNCHANGED <<phase, isTranslating, uiError, shown, history, saveCalls,
                   cloudPosts, cloudGet, removed, runVars, pureVars>>

(***************************************************************************)
(* The single-call handler: api/translate.ts 52-188                        *)
(***************************************************************************)
\* lines 52-127
SingleTake(method, body) ==
    /\ pc = "idle"
    /\ Take("single", method, body)
    /\ IF method = "OPTIONS" THEN Reject(204, "")
       ELSE IF method # "POST" THEN Reject(405, "Method not allowed")
       ELSE IF keyMissing(apiKey) THEN Reject(503, "configure DEEPSEEK_API_KEY")
       ELSE IF noParagraphs(body) THEN Reject(400, "paragraphs is required")
       ELSE /\ pc' = "awaitFirst"
            /\ paragraphs' = body.items
            /\ calls' = Append(calls, Call(1, "full"))
            /\ inflight' = {1}
            /\ UNCHANGED <<apiKey, chunks, firstJson, allTranslations, loopI, settled,
                           remote, events, ended, responses>>

\* The request comes from a caller other than App.tsx
SingleRequest(method, body) == SingleTake(method, body) /\ UNCHANGED <<pureVars, clientVars>>

\* lines 129-187
SingleReturns ==
    /\ handler = "single" /\ pc = "awaitFirst"
    /\ \E o \in FirstOutcomes(paragraphs) :
       LET r == callDeepSeek(o)
       IN  /\ remote' = Append(remote, Answer(1, o))
           /\ inflight' = {}
           /\ pc' = "done"
           /\ IF r.threw
              THEN /\ responses' = Append(responses, Response(500, r.msg, NoResult))
                   /\ UNCHANGED <<firstJson, allTranslations>>
              ELSE IF missingTranslation(r.json)
              THEN /\ responses' = Append(responses, Response(500, MalformedMsg, NoResult))
                   /\ UNCHANGED <<firstJson, allTranslations>>
              ELSE LET all == mergeZhWithParagraphs(paragraphs, r.json.translation.arr)
                   IN  /\ firstJson' = r.json
                       /\ allTranslations' = all
                       /\ responses' = Append(responses,
                                Response(200, "", finalResult(r.json, all)))
    /\ UNCHANGED <<apiKey, reqMethod, reqBody, handler, paragraphs, chunks, loopI, settled, calls, events, ended>>
    /\ UNCHANGED <<pureVars, clientVars>>

(***************************************************************************)
(* The page: src/App.tsx, handleFileUpload 192-238, translateAndAnalyze    *)
(* 155-190, saveToHistory 125-137                                          *)
(***************************************************************************)
MAX_CHARS == 30000

MAX_HISTORY == 50

\* A paragraph too long to be sent at all
PVast == Long(<<"V", "a", "s", "t">>, 30000)

\* The file chosen: its kind, and the paragraphs mammoth and the split give
Doc(kind, paras) == [kind |-> kind, paras |-> paras]

Docs ==
    {Doc("docx", ps) : ps \in SeqsUpTo(ParagraphPool, MaxParas)}
        \cup {Doc("docx", <<PTitle, PVast, PAuthor>>), Doc("other", <<PTitle>>)}

\* lines 216-223: the paragraphs up to the first that would pass MAX_CHARS
RECURSIVE limitLoop(_, _, _, _)
limitLoop(ps, k, total, acc) ==
    IF k > Len(ps) \/ total + TLen(ps[k]) > MAX_CHARS THEN acc
    ELSE limitLoop(ps, k + 1, total + TLen(ps[k]), Append(acc, ps[k]))

limitedParagraphs(ps) == limitLoop(ps, 1, 0, <<>>)

\* translateAndAnalyze without the test of res.ok
translateAndAnalyzeAnyStatus(resp) ==
    Returned(IF resp.status = 200 THEN resp.result
             ELSE Result(Absent, Absent, "none", <<>>))

\* lines 171-189: what the page makes of the response
translateAndAnalyze(resp) ==
    IF resp.status # 200
    THEN Threw(IF resp.status \in {502, 504} THEN "translation service not started"
               ELSE IF resp.error # "" THEN resp.error
               ELSE "translation service call failed")
    ELSE Returned(resp.result)

\* (x || "").trim() || "—"
dashOr(t) == IF Truthy(trim(t)) THEN trim(t) ELSE T(<<"EMDASH">>)

newName(n) == Name(dashOr(n.en), dashOr(n.zh))

\* lines 226-232: the item shown and saved
Item(result) ==
    [title |-> newName(result.title), author |-> newName(result.author),
     content |-> result.translation, analysis |-> result.analysis]

Entry(item, id) == [item |-> item, id |-> id]

\* line 129 without the slice
saveToHistoryNoCap(prev, entry) == <<entry>> \o prev

\* line 129: [entry, ...prev.slice(0, MAX_HISTORY - 1)]
saveToHistory(prev, entry) ==
    <<entry>> \o SubSeq(prev, 1, IF Len(prev) < MAX_HISTORY - 1 THEN Len(prev)
                                 ELSE MAX_HISTORY - 1)

\* lines 125-136: the entry goes first, and its POST to /api/history is sent
historySaved(item) ==
    /\ history' = saveToHistory(history, Entry(item, saveCalls + 1))
    /\ saveCalls' = saveCalls + 1
    /\ cloudPosts' = cloudPosts \cup {saveCalls + 1}

\* lines 192-224: a file is chosen; a .docx with text is sent to /api/translate,
\* which the batch handler or the single-call handler serves
Upload(doc, h) ==
    /\ phase = "idle" /\ pc = "idle"
    /\ IF doc.kind # "docx"
       THEN /\ phase' = "error"
            /\ uiError' = "Please upload a .docx file."
            /\ UNCHANGED <<isTranslating, runVars>>
       ELSE IF doc.paras = <<>>
       THEN /\ phase' = "error"
            /\ uiError' = "The document appears to be empty."
            /\ isTranslating' = FALSE
            /\ UNCHANGED runVars
       ELSE /\ phase' = "waiting"
            /\ uiError' = ""
            /\ isTranslating' = TRUE
            /\ IF h = "batch"
               THEN BatchTake(Body("array", limitedParagraphs(doc.paras)))
               ELSE SingleTake("POST", Body("array", limitedParagraphs(doc.paras)))
    /\ UNCHANGED <<shown, history, saveCalls, cloudPosts, aborted, cloudGet, removed, pureVars>>

\* lines 163-169: fetch rejects, the response never comes
UploadFetchFails ==
    /\ phase = "waiting" /\ pc # "done"
    /\ phase' = "error"
    /\ uiError' = "cannot reach the translation service"
    /\ isTranslating' = FALSE
    /\ UNCHANGED <<shown, history, saveCalls, cloudPosts, aborted, cloudGet, removed,
                   runVars, pureVars>>

\* lines 171-236: the response is there
UploadReturns ==
    /\ phase = "waiting" /\ pc = "done" /\ responses # <<>>
    /\ LET r == translateAndAnalyze(responses[1])
       IN  IF r.threw
           THEN /\ phase' = "error"
                /\ uiError' = r.msg
                /\ UNCHANGED <<shown, history, saveCalls, cloudPosts>>
           ELSE /\ phase' = "shown"
                /\ shown' = Item(r.json)
                /\ historySaved(Item(r.json))
                /\ UNCHANGED uiError
    /\ isTranslating' = FALSE
    /\ UNCHANGED <<aborted, cloudGet, removed, runVars, pureVars>>

\* lines 132-136: the POST to /api/history settles, well or not; nobody reads it
HistoryPostSettles(id) ==
    /\ id \in cloudPosts
    /\ cloudPosts' = cloudPosts \ {id}
    /\ UNCHANGED <<phase, isTranslating, uiError, shown, history, saveCalls,
                   aborted, cloudGet, removed, runVars, pureVars>>

(***************************************************************************)
(* The history list of the page over a session (App.tsx 64-153): the list  *)
(* read from localStorage at mount, the GET /api/history sent at mount,    *)
(* the saves of completed runs and the removals                            *)
(***************************************************************************)
\* An item saved in an earlier session, and the item of a run of this one
OldItem == Item(Result(Absent, Absent, "none", <<>>))

NewItem == Item(Result(Name(PTitle, ZhTitle), Absent, "an1", <<Pair(PTitle, ZhTitle)>>))

\* n entries with the ids first + 1 .. first + n
oldEntries(first, n) == [i \in 1..n |-> Entry(OldItem, first + i)]

\* localStorage.getItem(HISTORY_KEY): "none" nothing stored, "list" the JSON
\* of an array of valid items, "long" a text of more than 25000 characters,
\* "garbage" no JSON, "notarray" the JSON of something else, "invalid" an
\* array with an item that has no content array
Stored(k, items) == [k |-> k, items |-> items]

StoredPool ==
    { Stored("none", <<>>), Stored("garbage", <<>>), Stored("notarray", <<>>),
      Stored("long", oldEntries(100, 50)), Stored("invalid", oldEntries(100, 2)),
      Stored("list", oldEntries(100, 1)), Stored("list", oldEntries(100, 50)),
      Stored("list", oldEntries(100, 51)) }

\* slice(0, MAX_HISTORY)
firstFifty(items) ==
    SubSeq(items, 1, IF Len(items) < MAX_HISTORY THEN Len(items) ELSE MAX_HISTORY)

\* lines 64-95: the initializer of the history state
loadHistory(stored) == IF stored.k = "list" THEN firstFifty(stored.items) ELSE <<>>

\* What the GET brings (the store's handler, part_001 31-49, answers 503 or
\* the rows, newest first, 100 at most): no answer or a status that is not
\* OK ("fail"), a text that is no array ("notarray"), or a list of items
GetResponses ==
    { Stored("fail", <<>>), Stored("notarray", <<>>), Stored("list", <<>>),
      Stored("list", oldEntries(200, 2)), Stored("list", oldEntries(200, 51)) }

\* The store's list when the entries of this session whose POST has settled
\* are in it
storeWithSaved ==
    Stored("list",
           SelectSeq(history, LAMBDA e : e.id <= saveCalls /\ e.id \notin cloudPosts)
               \o oldEntries(200, 2))

\* lines 99-115: the GET sent at mount settles
HistoryGetSettles ==
    /\ cloudGet = "pending"
    /\ cloudGet' = "settled"
    /\ \E r \in GetResponses \cup {storeWithSaved} :
          history' = IF r.k = "list" /\ Len(r.items) > 0 THEN firstFifty(r.items)
                     ELSE history
    /\ UNCHANGED <<phase, isTranslating, uiError, shown, saveCalls, cloudPosts,
                   aborted, removed, runVars, pureVars>>

\* lines 226-232 of a run of handleFileUpload that ended well (the runs
\* themselves are the actions Upload .. UploadReturns)
RunSaved ==
    /\ saveCalls < MaxSaves
    /\ phase' = "shown"
    /\ shown' = NewItem
    /\ historySaved(NewItem)
    /\ UNCHANGED <<isTranslating, uiError, aborted, cloudGet, removed, runVars, pureVars>>

\* The entries the user is taken to remove: the newest two and the oldest
Removable ==
    {history[i].id : i \in {j \in {1, 2, Len(history)} : j \in 1..Len(history)}}

\* lines 147-153: removeFromHistory
HistoryRemove(id) ==
    /\ Cardinality(removed) < MaxRemoves
    /\ history' = SelectSeq(history, LAMBDA h : h.id # id)
    /\ removed' = removed \cup {id}
    /\ UNCHANGED <<phase, isTranslating, uiError, shown, saveCalls, cloudPosts,
                   aborted, cloudGet, runVars, pureVars>>

InitHistory ==
    /\ apiKey = ValidKey /\ IdleRun /\ NoPure
    /\ phase = "idle" /\ isTranslating = FALSE /\ uiError = "" /\ shown = NoResult
    /\ saveCalls = 0 /\ cloudPosts = {} /\ aborted = FALSE
    /\ history \in {loadHistory(st) : st \in StoredPool}
    /\ cloudGet = "pending"
    /\ removed = {}

NextHistory ==
    \/ HistoryGetSettles
    \/ RunSaved
    \/ \E id \in Removable : HistoryRemove(id)
    \/ \E id \in cloudPosts : HistoryPostSettles(id)

SpecHistory == InitHistory /\ [][NextHistory]_vars

Next ==
    \/ \E body \in Bodies : BatchRequest(body)
    \/ BatchFirstReturns
    \/ \E i \in inflight : BatchRestReturns(i)
    \/ \E i \in inflight : BatchLateReturn(i)
    \/ \E method \in Methods : \E body \in Bodies : StreamRequest(method, body)
    \/ StreamFirstReturns
    \/ StreamChunkReturns
    \/ CallerAborts
    \/ \E method \in Methods : \E body \in Bodies : SingleRequest(method, body)
    \/ SingleReturns
    \/ \E doc \in Docs : \E h \in {"batch", "single"} : Upload(doc, h)
    \/ UploadFetchFails
    \/ UploadReturns
    \/ \E id \in cloudPosts : HistoryPostSettles(id)

Spec == Init /\ [][Next]_vars

(***************************************************************************)
(* splitIntoChunks on its own: every paragraph list up to MaxSplitParas    *)
(* over SplitPool, under every budget of Budgets                           *)
(***************************************************************************)
\* Paragraphs of 0 to 3 characters for the small budgets, and two long ones:
\* PBody fits CHUNK_SIZE once but not twice, PHuge does not fit at all
PHuge == Long(<<"B", "i", "g">>, 5600)

SplitPool == {EmptyText, T(<<"a">>), T(<<"b", "c">>), T(<<"d", "e", "f">>), PBody, PHuge}

Budgets == (1..MaxBudget) \cup {CHUNK_SIZE}

InitSplit ==
    /\ apiKey = ValidKey /\ IdleRun /\ IdleClient
    /\ fnArg \in [paras : SeqsUpTo(SplitPool, MaxSplitParas), maxChars : Budgets]
    /\ fnOut = <<>>
    /\ fnDone = FALSE

CallSplit ==
    /\ ~fnDone
    /\ fnOut' = splitIntoChunks(fnArg.paras, fnArg.maxChars)
    /\ fnDone' = TRUE
    /\ UNCHANGED <<fnArg, runVars, clientVars>>

SpecSplit == InitSplit /\ [][CallSplit]_vars

\* C6: the chunks, concatenated in order, are the input paragraph sequence:
\* nothing dropped, duplicated, reordered or cut, under every budget B > 0.
SplitKeepsParagraphs ==
    fnDone => /\ fnArg.maxChars > 0
              /\ Flatten(fnOut) = fnArg.paras

\* The split closes a chunk, opens another, and one chunk holds two paragraphs
SplitKeepsWitness ==
    /\ fnDone
    /\ Len(fnArg.paras) = 3
    /\ Len(fnOut) = 2
    /\ Len(fnOut[1]) = 2

\* C7: every chunk has a paragraph, and its length sum is within the budget
\* unless it is one paragraph longer than the budget; such a paragraph is
\* alone in its chunk.
SplitWithinBudget ==
    fnDone =>
        \A i \in 1..Len(fnOut) :
            /\ Len(fnOut[i]) >= 1
            /\ \/ SumLen(fnOut[i]) <= fnArg.maxChars
               \/ Len(fnOut[i]) = 1 /\ TLen(fnOut[i][1]) > fnArg.maxChars
            /\ \A j \in 1..Len(fnOut[i]) :
                   TLen(fnOut[i][j]) > fnArg.maxChars => Len(fnOut[i]) = 1

\* An oversized paragraph comes first, a chunk of two that fits comes after
SplitBudgetWitness ==
    /\ fnDone
    /\ Len(fnOut) = 2
    /\ Len(fnOut[1]) = 1 /\ TLen(fnOut[1][1]) > fnArg.maxChars
    /\ Len(fnOut[2]) = 2 /\ SumLen(fnOut[2]) <= fnArg.maxChars

(***************************************************************************)
(* mergeZhWithParagraphs on its own: every chunk up to MaxMergeParas       *)
(* paragraphs against every recovered array up to MaxRaw elements          *)
(***************************************************************************)
MergeParas == {T(<<"O", "n", "e">>), T(<<"T", "w", "o">>)}

\* One element of each shape, each with a text of its own
\* ("other": a number, a boolean, an array or an object without en and zh)
ElemPool ==
    { Elem("str", EmptyText, T(<<"ZYI">>)),
      Elem("objzh", EmptyText, T(<<"ZER">>)),
      Elem("objzhnull", EmptyText, EmptyText),
      Elem("objboth", T(<<"B", "o", "t", "h">>), T(<<"ZSAN">>)),
      Elem("objen", T(<<"O", "n", "l", "y">>), EmptyText),
      Elem("objennull", EmptyText, EmptyText),
      Elem("null", EmptyText, EmptyText),
      Elem("other", EmptyText, EmptyText) }

InitMerge ==
    /\ apiKey = ValidKey /\ IdleRun /\ IdleClient
    /\ fnArg \in [paras : SeqsUpTo(MergeParas, MaxMergeParas), raw : SeqsUpTo(ElemPool, MaxRaw)]
    /\ fnOut = <<>>
    /\ fnDone = FALSE

CallMerge ==
    /\ ~fnDone
    /\ fnOut' = mergeZhWithParagraphs(fnArg.paras, fnArg.raw)
    /\ fnDone' = TRUE
    /\ UNCHANGED <<fnArg, runVars, clientVars>>

SpecMerge == InitMerge /\ [][CallMerge]_vars

\* The source texts and the target texts the element at position i can give
EnOfElem(raw, i) ==
    IF i <= Len(raw) /\ raw[i].k = "objen" THEN {raw[i].en} ELSE {}

ZhOfElem(raw, i) ==
    IF i <= Len(raw) /\ raw[i].k \in {"str", "objzh", "objboth"} THEN {raw[i].zh} ELSE {}

\* C8: the merged list is as long as the paragraph list, whatever the length
\* or the content of the recovered array, and pair i is made of paragraph i
\* and recovered element i only.
MergeOnePairPerParagraph ==
    fnDone =>
        /\ Len(fnOut) = Len(fnArg.paras)
        /\ \A i \in 1..Len(fnOut) :
               /\ fnOut[i].en \in {fnArg.paras[i]} \cup EnOfElem(fnArg.raw, i)
               /\ fnOut[i].zh \in {EmptyText} \cup ZhOfElem(fnArg.raw, i)
               /\ i > Len(fnArg.raw) => fnOut[i] = Pair(fnArg.paras[i], EmptyText)

\* A recovered array longer than the chunk, with a null and a string in it
MergeOnePairWitness ==
    /\ fnDone
    /\ Len(fnArg.paras) = 2
    /\ Len(fnArg.raw) = 3
    /\ fnArg.raw[1].k = "null"
    /\ fnArg.raw[2].k = "str"
    /\ fnOut[2].zh = fnArg.raw[2].zh

(***************************************************************************)
(* Properties of a run of a handler (specification Spec)                   *)
(***************************************************************************)
Chunked == handler \in {"batch", "stream"}

\* The run ended in Done: a 200 response, or a done record as the last record
RunDone ==
    /\ pc = "done"
    /\ IF handler = "stream"
       THEN events # <<>> /\ events[Len(events)].type = "done"
       ELSE responses # <<>> /\ responses[1].status = 200

\* The result a run that ended in Done delivered
TheResult == IF handler = "stream" THEN events[Len(events)].result ELSE responses[1].result

\* The run ended in Failed with the message msg and without a result
RunFailedWith(msg) ==
    /\ pc = "done"
    /\ IF handler = "stream"
       THEN /\ ended /\ responses = <<>>
            /\ events # <<>> /\ events[Len(events)] = ErrorEvent(msg)
            /\ \A i \in 1..(Len(events) - 1) : events[i].type = "progress"
       ELSE responses = <<Response(500, msg, NoResult)>>

\* The answers the handler read, by chunk
Answered(k) == \E j \in 1..Len(remote) : remote[j].chunk = k

AnswerTo(k) == (CHOOSE a \in {remote[j] : j \in 1..Len(remote)} : a.chunk = k).o

HasArray(o) == o.kind = "ok" /\ parseDeepSeekJson(o.content).translation.k = "array"

LacksArray(o) == o.kind = "ok" /\ parseDeepSeekJson(o.content).translation.k # "array"

\* The number of paragraphs in the chunks before chunk k
Offset(k) == Len(Flatten(SubSeq(chunks, 1, k - 1)))

\* The paragraphs of chunk k are in the result at their input positions,
\* with empty targets
EmptyPairsFor(k) ==
    \A j \in 1..Len(chunks[k]) :
        TheResult.translation[Offset(k) + j] = Pair(chunks[k][j], EmptyText)

\* Every call of the run was answered with a 200, the first with an array,
\* and a later chunk's recovered answer has no translation array
LaterChunkLacksArray ==
    /\ Chunked /\ pc = "done"
    /\ Len(chunks) >= 2
    /\ \A k \in 1..Len(chunks) : Answered(k) /\ AnswerTo(k).kind = "ok"
    /\ HasArray(AnswerTo(1))
    /\ \E k \in 2..Len(chunks) : LacksArray(AnswerTo(k))

\* C1: when a later chunk's recovered answer has no translation array, the
\* run still ends in Done with one pair per input paragraph, and the
\* paragraphs of that chunk are there with empty targets.
LaterChunkWithoutArrayKeepsPairs ==
    LaterChunkLacksArray =>
        /\ RunDone
        /\ Len(TheResult.translation) = Len(paragraphs)
        /\ \A k \in 2..Len(chunks) : LacksArray(AnswerTo(k)) => EmptyPairsFor(k)

\* The message of a failed remote call (callDeepSeek's throw, or fetch's)
FailureMsg(o) == IF o.kind = "transport" THEN "fetch failed" ELSE userMsg(o.status, o.body)

\* The remote call for a later chunk failed
LaterCallFailed(j) == Chunked /\ remote[j].chunk > 1 /\ remote[j].o.kind # "ok"

\* C2 as stated: a failed call for a later chunk leaves the run in Done, the
\* failed chunk's paragraphs with empty targets.
LaterFailureStillDone ==
    \A j \in 1..Len(remote) :
        LaterCallFailed(j) =>
            /\ RunDone
            /\ Len(TheResult.translation) = Len(paragraphs)
            /\ EmptyPairsFor(remote[j].chunk)

\* C2, amended: a failed call for a later chunk ends the run in Failed with
\* that call's message and without a result; in the streaming run the error
\* record follows the progress records and closes the stream.
LaterFailureFailsRun ==
    \A j \in 1..Len(remote) :
        LaterCallFailed(j) => RunFailedWith(FailureMsg(remote[j].o))

\* The batch run: chunk 2 was answered well, then the call for chunk 3 failed
LaterFailureWitness ==
    /\ handler = "batch" /\ pc = "done"
    /\ Len(chunks) = 3
    /\ Len(settled) = 1 /\ settled[1].chunk = 2
    /\ Len(remote) = 3 /\ remote[3].chunk = 3 /\ remote[3].o.kind = "transport"
    /\ responses = <<Response(500, "fetch failed", NoResult)>>

\* C3: when the first chunk's recovered answer has no translation array the
\* run ends in Failed with the malformed-response message, no call is made
\* for a later chunk, and no result is returned.
FirstChunkWithoutArrayFails ==
    (handler # "none" /\ remote # <<>> /\ LacksArray(remote[1].o)) =>
        /\ RunFailedWith(MalformedMsg)
        /\ calls = <<Call(1, "full")>>
        /\ Len(remote) = 1
        /\ inflight = {}
        /\ allTranslations = <<>>

\* The batch run over three chunks, the first answer with a translation that
\* is no array
FirstChunkFailsWitness ==
    /\ handler = "batch" /\ pc = "done"
    /\ Len(chunks) = 3
    /\ remote # <<>> /\ remote[1].o.kind = "ok"
    /\ parseDeepSeekJson(remote[1].o.content).translation.k = "notarray"
    /\ responses = <<Response(500, MalformedMsg, NoResult)>>

\* The pairs of the chunks from k on, merged in chunk order from the answers
RECURSIVE InChunkOrder(_)
InChunkOrder(k) ==
    IF k > Len(chunks) THEN <<>>
    ELSE (IF HasArray(AnswerTo(k))
          THEN mergeZhWithParagraphs(chunks[k],
                   parseDeepSeekJson(AnswerTo(k).content).translation.arr)
          ELSE <<>>) \o InChunkOrder(k + 1)

\* C4: the batch result is the merge in chunk order, whatever the order the
\* trailing calls returned in, and nothing of a trailing chunk is merged
\* before all the trailing calls have returned.
BatchMergesInChunkOrder ==
    /\ (handler = "batch" /\ pc = "awaitRest") =>
           /\ responses = <<>>
           /\ allTranslations =
                  mergeZhWithParagraphs(chunks[1], firstJson.translation.arr)
    /\ (handler = "batch" /\ RunDone) =>
           /\ inflight = {}
           /\ \A k \in 1..Len(chunks) : Answered(k)
           /\ TheResult.translation = InChunkOrder(1)
           /\ allTranslations = InChunkOrder(1)

\* Chunk 3 was answered before chunk 2, with a different array
BatchOrderWitness ==
    /\ handler = "batch" /\ RunDone
    /\ Len(chunks) = 3
    /\ Len(settled) = 2 /\ settled[1].chunk = 3 /\ settled[2].chunk = 2
    /\ HasArray(AnswerTo(2)) /\ HasArray(AnswerTo(3))
    /\ settled[1].json # settled[2].json

\* C5: a streaming run that passed the checks writes progress records only,
\* until one done or error record that is the last record; the handler ends
\* the connection with it and writes nothing after.
StreamOneTerminalEvent ==
    (handler = "stream" /\ paragraphs # <<>>) =>
        /\ responses = <<>>
        /\ events # <<>>
        /\ ended <=> pc = "done"
        /\ \A i \in 1..Len(events) :
               IF ended /\ i = Len(events)
               THEN events[i].type \in {"done", "error"}
               ELSE events[i].type = "progress"

\* A stream that ended with an error record after two progress records
StreamTerminalWitness ==
    /\ handler = "stream" /\ ended
    /\ Len(events) = 3
    /\ events[2].type = "progress"
    /\ events[3].type = "error"

\* A title or author that has a character left in en or in zh once the
\* blanks around it and the dashes in it are taken away
Present(n) ==
    /\ n.k = "obj"
    /\ \/ Truthy(RemoveDashes(trim(n.en)))
       \/ Truthy(RemoveDashes(trim(n.zh)))

\* C9: a title or author the first answer supplied, non-empty in en or in
\* zh once dash placeholders are discarded, is the one in the result: the
\* fallback does not replace it.
SuppliedNamesKept ==
    RunDone =>
        /\ Present(firstJson.title) => TheResult.title = firstJson.title
        /\ Present(firstJson.author) => TheResult.author = firstJson.author

\* C10: a request without a usable key, or whose paragraphs are no array or
\* an empty one, is answered with an error before any remote call, any
\* progress record and any partial result.
BadRequestRejectedFirst ==
    (handler # "none"
        /\ (apiKey # ValidKey \/ reqBody.k # "array" \/ reqBody.items = <<>>)) =>
        /\ pc = "done"
        /\ calls = <<>> /\ remote = <<>> /\ inflight = {}
        /\ events = <<>> /\ ~ended
        /\ paragraphs = <<>> /\ chunks = <<>> /\ allTranslations = <<>>
        /\ Len(responses) = 1
        /\ responses[1].result = NoResult
        /\ responses[1].status \in
               (IF reqMethod = "POST" THEN {400, 503} ELSE {204, 405})

\* A key that holds a placeholder, with paragraphs that are fine
BadRequestWitness ==
    /\ handler = "stream" /\ reqMethod = "POST"
    /\ apiKey = T(<<"s", "k", "ZH_YOUR_KEY">>)
    /\ Len(reqBody.items) = 2
    /\ responses = <<Response(503, "configure DEEPSEEK_API_KEY", NoResult)>>

\* C11: a 401 from the engine gives the invalid-credential message and a
\* 429 the rate-limit message, whatever the error body holds; every other
\* failure gives a service-error message.
StatusGivesCategory ==
    \A j \in 1..Len(remote) :
        remote[j].o.kind # "ok" =>
            IF remote[j].o.kind = "http" /\ remote[j].o.status = 401
            THEN RunFailedWith("API Key invalid or expired")
            ELSE IF remote[j].o.kind = "http" /\ remote[j].o.status = 429
            THEN RunFailedWith("Too many requests, retry later")
            ELSE \/ RunFailedWith("DeepSeek API call failed")
                 \/ RunFailedWith("error.message of the body")
                 \/ RunFailedWith("fetch failed")

\* The first chunk's recovered response
FirstRecovered == parseDeepSeekJson(remote[1].o.content)

\* The title and the author the fallback extractor finds in the result
FallbackOfResult == extractTitleAuthorFromTranslation(TheResult.translation)

\* C12: the analysis of the result, and its title and author unless the
\* fallback gave them, are those of the first chunk's recovered response;
\* the responses of the later chunks change none of these fields.
NamesFromFirstChunkOnly ==
    (Chunked /\ remote # <<>> /\ HasArray(remote[1].o)) =>
        /\ firstJson = FirstRecovered
        /\ RunDone =>
               /\ TheResult.analysis = FirstRecovered.analysis
               /\ TheResult.title \in {orEmpty(FirstRecovered.title), FallbackOfResult.title}
               /\ TheResult.author \in {orEmpty(FirstRecovered.author), FallbackOfResult.author}

\* The first answer has no title and the analysis an1; the second chunk's
\* answer brings a title and the analysis an2
NamesFromFirstWitness ==
    /\ Chunked /\ RunDone
    /\ Len(chunks) = 2
    /\ FirstRecovered.title = Absent
    /\ FirstRecovered.analysis = "an1"
    /\ AnswerTo(2).kind = "ok"
    /\ parseDeepSeekJson(AnswerTo(2).content).title = SuppliedTitle
    /\ parseDeepSeekJson(AnswerTo(2).content).analysis = "an2"
    /\ TheResult.analysis = "an1"
    /\ TheResult.title # SuppliedTitle

\* The errors the page raises without a response of the service
LocalErrors ==
    {"Please upload a .docx file.", "The document appears to be empty.",
     "cannot reach the translation service"}

\* C13: saveToHistory is called once for a run that ended in Done, never
\* for a run that failed, and the page is done with the run whether or not
\* the save to the store has settled.
SavedOncePerDoneRun ==
    /\ phase = "shown" =>
           /\ RunDone
           /\ saveCalls = 1
           /\ ~isTranslating
           /\ Len(history) = 1
           /\ history[1].item.content = TheResult.translation
    /\ phase # "shown" =>
           /\ saveCalls = 0
           /\ history = <<>>
           /\ cloudPosts = {}
    /\ (phase = "error" /\ uiError \notin LocalErrors) =>
           /\ pc = "done"
           /\ ~RunDone
           /\ uiError = responses[1].error

\* The run is over for the page while the POST to the store is still out
SavedOnceWitness ==
    /\ phase = "shown" /\ ~isTranslating
    /\ saveCalls = 1 /\ cloudPosts = {1}
    /\ handler = "batch" /\ Len(chunks) = 2

\* The answers of the streaming run that completed their chunk
Completed ==
    {j \in 1..Len(remote) :
        IF remote[j].chunk = 1 THEN HasArray(remote[j].o) ELSE remote[j].o.kind = "ok"}

ProgressRecords == {i \in 1..Len(events) : events[i].type = "progress"}

\* p is 100 * k / n rounded to the nearest integer, halves upwards
IsRounded(p, k, n) == 2 * p * n <= 200 * k + n /\ 200 * k + n < 2 * (p + 1) * n

\* C14: the streaming run writes one progress record after each completed
\* chunk (after the opening record for 0 chunks); record k + 1 carries the
\* count k of completed chunks, the total, and round(100 * k / total).
ProgressAfterEachChunk ==
    (handler = "stream" /\ paragraphs # <<>>) =>
        /\ Cardinality(ProgressRecords) = 1 + Cardinality(Completed)
        /\ \A i \in ProgressRecords :
               /\ events[i].chunk = i - 1
               /\ events[i].total = Len(chunks)
               /\ IsRounded(events[i].percent, i - 1, Len(chunks))

\* Three chunks, all completed: 2 of 3 is reported as 67 percent
ProgressWitness ==
    /\ handler = "stream" /\ RunDone
    /\ Len(chunks) = 3
    /\ Len(events) = 5
    /\ events[3] = Progress(2, 3, 67)
    /\ events[4] = Progress(3, 3, 100)

\* C15: once the caller has aborted the streaming request, the handler
\* starts no further remote call (the call in flight may finish).
NoCallAfterAbort == [][aborted => calls' = calls]_vars

\* C16: a remote call that fails, for whatever chunk, ends the run with an
\* error that carries the failure's message: the batch and the single-call
\* handler answer once, with status 500; the streaming handler writes one
\* error record and ends the stream.
FailureBecomesError ==
    /\ Len(responses) <= 1
    /\ (handler \in {"batch", "single"} /\ pc = "done") => Len(responses) = 1
    /\ \A j \in 1..Len(remote) :
           remote[j].o.kind # "ok" =>
               /\ FailureMsg(remote[j].o) # ""
               /\ RunFailedWith(FailureMsg(remote[j].o))
               /\ \A i \in 1..Len(remote) : remote[i].o.kind # "ok" => i = j

\* The first call of a batch run over three chunks fails in transport
FailureBecomesErrorWitness ==
    /\ handler = "batch" /\ pc = "done"
    /\ Len(chunks) = 3
    /\ remote = <<Answer(1, Transport)>>
    /\ responses = <<Response(500, "fetch failed", NoResult)>>

\* C17: no chunk is sent to the engine twice, so the calls of a run are
\* never more than its chunks, and a failed call is the last thing the run
\* reads: the run is over, not in Done, and the streaming run has started no
\* call after it.
NoRetry ==
    /\ \A i, j \in 1..Len(calls) : calls[i].chunk = calls[j].chunk => i = j
    /\ Len(calls) <= (IF handler = "single" THEN 1 ELSE Len(chunks))
    /\ \A j \in 1..Len(remote) :
           remote[j].o.kind # "ok" =>
               /\ j = Len(remote)
               /\ pc = "done" /\ ~RunDone
               /\ handler = "stream" => Len(calls) = remote[j].chunk

\* The streaming run over three chunks: the call for chunk 2 fails, and
\* chunk 3 is never sent, nor chunk 2 again
NoRetryWitness ==
    /\ handler = "stream" /\ ended
    /\ Len(chunks) = 3
    /\ Len(remote) = 2 /\ remote[2].o.kind = "http"
    /\ calls = <<Call(1, "full"), Call(2, "translationOnly")>>

(***************************************************************************)
(* parseDeepSeekJson on its own: every reply text of the pool, bare,       *)
(* fenced or inside prose, with and without a trailing comma               *)
(***************************************************************************)
ZhFenced == T(<<"ZXIA", "FENCE", "ZYU">>)

ZhTwoFences == T(<<"FENCE", "ZXIA", "FENCE">>)

ZhCommaClose == T(<<"ZXIA", ",", " ", "]", "ZYU">>)

ParseObjs ==
    { Obj(Tr("array", <<Elem("str", EmptyText, zh)>>), SuppliedTitle, SuppliedAuthor, "an1") :
          zh \in {ZhBody, ZhFenced, ZhTwoFences, ZhCommaClose} }
    \cup { Obj(Tr("notarray", <<>>), Absent, Absent, "none"), EmptyObj, NullJson }

\* the text null has no braces to hold a comma or an unquoted key
TextPool ==
    { t \in [wrap : {"none", "fence", "prose"}, comma : BOOLEAN, relaxed : BOOLEAN,
             valid : BOOLEAN, obj : ParseObjs] :
          t.obj.kind = "null" => ~t.comma /\ ~t.relaxed }

InitParse ==
    /\ apiKey = ValidKey /\ IdleRun /\ IdleClient
    /\ fnArg \in TextPool
    /\ fnOut = <<>>
    /\ fnDone = FALSE

CallParse ==
    /\ ~fnDone
    /\ fnOut' = parseDeepSeekJson(fnArg)
    /\ fnDone' = TRUE
    /\ UNCHANGED <<fnArg, runVars, clientVars>>

SpecParse == InitParse /\ [][CallParse]_vars

allStagesFail(content) ==
    /\ ~JSONparse(content).ok
    /\ ~JSONparse(sanitizeJson(content)).ok
    /\ ~JSON5parse(content).ok
    /\ ~JSON5parse(extracted(content)).ok

\* C18: for every reply text the parser returns a value, that value is an
\* object (a map of fields), and it is the empty object when all four stages
\* fail.
ParseGivesObject ==
    fnDone => /\ fnOut.kind = "object"
              /\ allStagesFail(fnArg) => fnOut = EmptyObj

\* C19: an object written with one trailing comma inside a code fence is
\* recovered to what the parser gives for the same object written bare and
\* without the comma, which is the object itself.
FencedCommaRecovered ==
    (fnDone /\ fnArg.wrap = "fence" /\ fnArg.comma /\ ~fnArg.relaxed
            /\ fnArg.valid /\ fnArg.obj.kind = "object")
        => /\ fnOut = parseDeepSeekJson(Text("none", FALSE, FALSE, TRUE, fnArg.obj))
           /\ fnOut = fnArg.obj

(***************************************************************************)
(* splitIntoChunks on documents of 12000 characters under CHUNK_SIZE:      *)
(* every sequence of up to MaxTotalParas paragraphs, of these lengths,     *)
(* whose lengths add up to 12000                                           *)
(***************************************************************************)
TotalPool == {Long(<<"p">>, n - 1) : n \in {1000, 2000, 3000, 4000, 6000, 12000}}

InitSplitTotal ==
    /\ apiKey = ValidKey /\ IdleRun /\ IdleClient
    /\ fnArg \in {a \in [paras : SeqsUpTo(TotalPool, MaxTotalParas), maxChars : {CHUNK_SIZE}] :
                     SumLen(a.paras) = 12000}
    /\ fnOut = <<>>
    /\ fnDone = FALSE

SpecSplitTotal == InitSplitTotal /\ [][CallSplit]_vars

countsAddUp == Len(Flatten(fnOut)) = Len(fnArg.paras)

sumsWithin ==
    \A i \in 1..Len(fnOut) :
        \/ SumLen(fnOut[i]) <= CHUNK_SIZE
        \/ Len(fnOut[i]) = 1 /\ TLen(fnOut[i][1]) > CHUNK_SIZE

\* C20 as stated: 12000 characters under the budget 5500 give exactly 3
\* chunks, whose paragraph counts add up to the input's and whose character
\* sums are within 5500 unless the chunk is one paragraph longer than 5500.
TotalGivesThreeChunks ==
    fnDone => Len(fnOut) = 3 /\ countsAddUp /\ sumsWithin

\* C20 amended: the paragraph counts add up and the sums are within 5500 as
\* stated; the number of chunks depends on the paragraph lengths, and is at
\* least 3 when no paragraph is longer than 5500.
TotalChunksWithin ==
    fnDone => /\ countsAddUp
              /\ sumsWithin
              /\ (\A k \in 1..Len(fnArg.paras) : TLen(fnArg.paras[k]) <= CHUNK_SIZE)
                     => Len(fnOut) >= 3

\* 4000 + 1000, 4000, 3000: three chunks, the first of two paragraphs
TotalChunksWitness ==
    /\ fnDone
    /\ Len(fnArg.paras) = 4
    /\ Len(fnOut) = 3
    /\ Len(fnOut[1]) = 2
    /\ \A i \in 1..3 : SumLen(fnOut[i]) <= CHUNK_SIZE

(***************************************************************************)
(* The streaming handler's calls, one after the other                      *)
(***************************************************************************)
\* What the answers to chunks 1..k merge to, in chunk order
RECURSIVE mergedThrough(_)
mergedThrough(k) ==
    IF k = 0 THEN <<>>
    ELSE mergedThrough(k - 1)
         \o (IF HasArray(AnswerTo(k))
             THEN mergeZhWithParagraphs(chunks[k],
                      parseDeepSeekJson(AnswerTo(k).content).translation.arr)
             ELSE <<>>)

\* C21: in a streaming run the calls are started in chunk order, one at a
\* time: while call i is out, the calls for chunks 1..i-1 have all returned
\* and the accumulator holds their merges, and no other call is in flight.
StreamCallsSerialized ==
    handler = "stream" =>
        /\ Cardinality(inflight) <= 1
        /\ Len(calls) <= Len(remote) + 1
        /\ \A i \in 1..Len(calls) : calls[i].chunk = i
        /\ \A j \in 1..Len(remote) : remote[j].chunk = j
        /\ pc \in {"awaitFirst", "awaitChunk"} =>
               /\ Len(remote) = Len(calls) - 1
               /\ inflight = {Len(calls)}
               /\ allTranslations = mergedThrough(Len(calls) - 1)

\* The call for chunk 3 is out, chunks 1 and 2 are merged
StreamSerializedWitness ==
    /\ handler = "stream" /\ pc = "awaitChunk"
    /\ Len(chunks) = 3 /\ Len(calls) = 3 /\ Len(remote) = 2
    /\ HasArray(AnswerTo(2))
    /\ Len(allTranslations) = Len(chunks[1]) + Len(chunks[2])

(***************************************************************************)
(* extractTitleAuthorFromTranslation on its own: every translation of up   *)
(* to MaxPairs pairs of the pool                                           *)
(***************************************************************************)
\* a title in both languages; an author line in both; a short source line
\* over a target sentence; a long source paragraph whose target is missing;
\* a name with the author named in the target only, without a colon
PairPool ==
    { Pair(PTitle, ZhTitle),
      Pair(PAuthor, ZhAuthor),
      Pair(PTitle, ZhBody),
      Pair(PBody, EmptyText),
      Pair(T(<<"A", "m", "o", "s">>), T(<<"ZUO", "ZHE", "ZAA", "ZMO">>)) }

InitExtract ==
    /\ apiKey = ValidKey /\ IdleRun /\ IdleClient
    /\ fnArg \in SeqsUpTo(PairPool, MaxPairs)
    /\ fnOut = <<>>
    /\ fnDone = FALSE

CallExtract ==
    /\ ~fnDone
    /\ fnOut' = extractTitleAuthorFromTranslation(fnArg)
    /\ fnDone' = TRUE
    /\ UNCHANGED <<fnArg, runVars, clientVars>>

SpecExtract == InitExtract /\ [][CallExtract]_vars

\* a line of at most 60 characters that does not end in one of the marks
shortLine(line, marks) ==
    TLen(line) <= 60 /\ (TLen(line) = 0 \/ CharAt(line, TLen(line)) \notin marks)

\* C22: a title is produced only from the first pair, and only when its
\* first non-empty line is, in the source and in the target language, at
\* most 60 characters and without sentence-terminal punctuation at its end,
\* and is no author line; the title is then that line in both languages.
TitleOnlyWhenBothShort ==
    (fnDone /\ fnOut.title.k = "obj") =>
        /\ fnArg # <<>>
        /\ shortLine(FirstLine(fnArg[1].en), {".", "!", "?"})
        /\ shortLine(FirstLine(fnArg[1].zh), {"ZSTOP", "ZBANG", "ZQM"})
        /\ ~isAuthorLine(FirstLine(fnArg[1].en), FirstLine(fnArg[1].zh))
        /\ fnOut.title = Name(FirstLine(fnArg[1].en), FirstLine(fnArg[1].zh))

\* pair i yields a non-empty author name in one of the languages
matchesAt(i) ==
    Truthy(nameZh(trim(fnArg[i].zh))) \/ Truthy(nameEn(trim(fnArg[i].en)))

\* the pairs among the first four that yield a name
authorHits == {i \in 1..Len(fnArg) : i <= 4 /\ matchesAt(i)}

\* C23: the author is taken from the lowest-index pair among the first four
\* that yields a non-empty name in either language; a fifth or later pair
\* never contributes, and there is no author when none of the four matches.
AuthorFromFirstFour ==
    fnDone =>
        IF authorHits = {} THEN fnOut.author = Absent
        ELSE \E i \in authorHits :
                /\ \A j \in authorHits : i <= j
                /\ fnOut.author = Name(nameEn(trim(fnArg[i].en)), nameZh(trim(fnArg[i].zh)))

\* Five pairs, the author line is the fifth: no author
AuthorFifthPairWitness ==
    /\ fnDone
    /\ Len(fnArg) = 5
    /\ matchesAt(5)
    /\ authorHits = {}
    /\ fnOut.author = Absent

\* What each of the four stages gives for the text, in the order of the cascade
stageOutputs(content) ==
    << JSONparse(content), JSONparse(sanitizeJson(content)),
       JSON5parse(content), JSON5parse(extracted(content)) >>

stagesOk(content) == {k \in 1..4 : stageOutputs(content)[k].ok}

\* C24: the result is the output of the first of the stages strict parse,
\* comma-stripped strict parse, lenient parse, lenient parse of the extracted
\* text that succeeds, whatever the later stages would give.
FirstSuccessfulStage ==
    (fnDone /\ stagesOk(fnArg) # {}) =>
        \E k \in stagesOk(fnArg) :
            /\ \A j \in stagesOk(fnArg) : k <= j
            /\ fnOut = stageOutputs(fnArg)[k].obj

\* The strict parse fails, the stripped and the lenient parse both succeed
\* with different objects: the result is the stripped one
FirstStageWitness ==
    /\ fnDone
    /\ stagesOk(fnArg) = {2, 3, 4}
    /\ stageOutputs(fnArg)[2].obj # stageOutputs(fnArg)[3].obj
    /\ fnOut = stageOutputs(fnArg)[2].obj

\* C25: pair i of the merge, by the shape of recovered element i: a string
\* is the target next to the original source; an object with a target field
\* gives the original source and that target (also when it has a source
\* field as well); an object with a source field and no target field gives
\* the recovered source and an empty target; anything else, and an index
\* past the end of the recovered array, gives the original source and an
\* empty target.
MergeRulePerIndex ==
    fnDone =>
        \A i \in 1..Len(fnArg.paras) :
            IF i > Len(fnArg.raw) THEN fnOut[i] = Pair(fnArg.paras[i], EmptyText)
            ELSE /\ fnArg.raw[i].k \in {"str", "objzh", "objboth"}
                        => fnOut[i] = Pair(fnArg.paras[i], fnArg.raw[i].zh)
                 /\ fnArg.raw[i].k = "objen"
                        => fnOut[i] = Pair(fnArg.raw[i].en, EmptyText)
                 /\ fnArg.raw[i].k \in {"null", "other", "objzhnull", "objennull"}
                        => fnOut[i] = Pair(fnArg.paras[i], EmptyText)

\* Two paragraphs against an object with both fields alone: the first pair
\* keeps the original source, the second has no element
MergeRuleWitness ==
    /\ fnDone
    /\ Len(fnArg.paras) = 2 /\ Len(fnArg.raw) = 1
    /\ fnArg.raw[1].k = "objboth"
    /\ fnOut[1] = Pair(fnArg.paras[1], fnArg.raw[1].zh)
    /\ fnOut[1].en # fnArg.raw[1].en
    /\ fnOut[2] = Pair(fnArg.paras[2], EmptyText)

(***************************************************************************)
(* The history list                                                        *)
(***************************************************************************)
InList(h, id) == \E i \in 1..Len(h) : h[i].id = id

\* C26: an entry saved in this session (ids 1 .. saveCalls) stays in the
\* list over every step, unless the user removes it in that step or it is
\* the fiftieth entry and a newer save pushes it out; the GET sent at mount,
\* whenever it settles, does not drop it.
SavedEntryStays ==
    [][\A i \in 1..Len(history) :
          history[i].id \in 1..saveCalls =>
              \/ InList(history', history[i].id)
              \/ history[i].id \in removed'
              \/ saveCalls' > saveCalls /\ i = MAX_HISTORY]_vars

\* C29: the list never holds more than 50 entries, and a save puts the new
\* entry first and keeps the older entries it retains in their order.
HistoryCappedNewestFirst ==
    /\ [](Len(history) <= MAX_HISTORY)
    /\ [][saveCalls' = saveCalls + 1 =>
             /\ history'[1].id = saveCalls'
             /\ Len(history') = (IF Len(history) < MAX_HISTORY THEN Len(history) + 1
                                 ELSE MAX_HISTORY)
             /\ Tail(history') = SubSeq(history, 1, Len(history') - 1)]_vars

\* Fifty entries were loaded; the save put the new one first and the oldest
\* one is gone
HistoryCapWitness ==
    /\ saveCalls = 1 /\ removed = {}
    /\ Len(history) = MAX_HISTORY
    /\ history[1].id = 1
    /\ history[2].id = 101
    /\ history[MAX_HISTORY].id = 149

(***************************************************************************)
(* The three handlers on a request of one chunk                            *)
(***************************************************************************)
\* The result of a 200 answer o with a translation array to the paragraphs
\* paras, stated once for all handlers
expectedFrom(json, all, fallback) ==
    Result(withFallback(json.title, fallback.title),
           withFallback(json.author, fallback.author), json.analysis, all)

expectedMerged(json, all) ==
    expectedFrom(json, all, extractTitleAuthorFromTranslation(all))

expectedResult(o, paras) ==
    expectedMerged(parseDeepSeekJson(o.content),
                   mergeZhWithParagraphs(paras, parseDeepSeekJson(o.content).translation.arr))

\* The run is over, its paragraphs fit in one chunk, and the one call was
\* answered with a 200
OneChunkAnswered ==
    /\ handler \in {"single", "batch", "stream"} /\ pc = "done"
    /\ paragraphs # <<>>
    /\ Len(splitIntoChunks(paragraphs, CHUNK_SIZE)) = 1
    /\ Len(remote) = 1 /\ remote[1].o.kind = "ok"

\* C27: on a request of one chunk answered with a 200, the single-call
\* handler, the batch handler and the streaming handler's done record give
\* the same title, author, translation and analysis, a function of the
\* answer and the paragraphs alone, and each of them fails exactly when the
\* recovered answer has no translation array.
HandlersAgreeOnOneChunk ==
    OneChunkAnswered =>
        IF HasArray(remote[1].o)
        THEN RunDone /\ TheResult = expectedResult(remote[1].o, paragraphs)
        ELSE ~RunDone /\ RunFailedWith(MalformedMsg)

\* The streaming run of two paragraphs in one chunk ended in Done with an
\* analysis and a title taken from the translation
HandlersAgreeWitness ==
    /\ OneChunkAnswered /\ handler = "stream" /\ RunDone
    /\ Len(paragraphs) = 2
    /\ TheResult.analysis # "none"
    /\ parseDeepSeekJson(remote[1].o.content).title = Absent
    /\ TheResult.title.k = "obj"

\* C28: the progress records of a streaming run count 0, 1, 2, ... by one
\* with a percentage that never falls; the record for 0 chunks at 0 percent
\* is there whenever a call is out; the done record comes right after the
\* progress record with chunk = total and 100 percent.
StreamProgressInOrder ==
    handler = "stream" =>
        /\ \A i \in 1..Len(events) :
               events[i].type = "progress" =>
                   /\ events[i].chunk = i - 1
                   /\ i > 1 => /\ events[i - 1].type = "progress"
                               /\ events[i - 1].percent <= events[i].percent
        /\ calls # <<>> => /\ events # <<>>
                           /\ events[1] = Progress(0, Len(chunks), 0)
        /\ \A i \in 1..Len(events) :
               events[i].type = "done" =>
                   /\ i > 1
                   /\ events[i - 1] = Progress(Len(chunks), Len(chunks), 100)

\* Three chunks: 0, 33, 67 and 100 percent, then the done record
StreamProgressWitness ==
    /\ handler = "stream" /\ ended
    /\ Len(chunks) = 3
    /\ Len(events) = 5
    /\ events[5].type = "done"
    /\ events[2].percent = 33 /\ events[3].percent = 67

====
